---- MODULE Spec2Model ----
(***************************************************************************)
(* Komga source plugin and Komga tracker plugin for the Paperback host.    *)
(* The model follows src/src/Paperback/Paperback.ts: the source plugin is  *)
(* lines 1-683, the bundled tracker plugin is lines 1146-1436.             *)
(*                                                                         *)
(* The host runs one plugin operation at a time (op); every network call   *)
(* of an operation is a suspension point and therefore a step of its own.  *)
(* What the server answers is drawn when the answer arrives.               *)
(***************************************************************************)
EXTENDS Integers, Sequences, FiniteSets, TLC

VARIABLES
    baseURL,      \* stateManager 'komgaAPI': NoURL or the stored API root
    credentials,  \* keychain 'authorization': NoCred or the stored string
    op,           \* the plugin operation the host is running, or "idle"
    icpt,         \* last request that went through an interceptor
    tags,         \* getTags: position, responses, result
    home,         \* getHomePageSections: sections, promises, notifications
    vm,           \* getViewMoreItems and the host's "load more" loop
    fu,           \* filterUpdatedManga: the time-watermarked walk
    form,         \* getMangaProgressManagementForm: the form and its submit
    queue,        \* processChapterReadActionQueue: actions and dispositions
    details       \* getMangaDetails of the source plugin: response, tags

vars == <<baseURL, credentials, op, icpt, tags, home, vm, fu, form, queue, details>>

(***************************************************************************)
(* Bounds of the model.                                                    *)
(***************************************************************************)
MaxCollections == 2   \* collections the server reports to getTags
MaxItems == 5         \* series on one page of a "view more" listing
MaxPage == 2          \* last page of a listing that may still hold items
MaxTiles == 1         \* series in the response of one home section
MaxContent == 2       \* series on one page of /series/updated
MaxTime == 3          \* timestamps are 1..MaxTime
MaxUpdPage == 1       \* last page of /series/updated that may hold series
MaxBooks == 2         \* books of the series a progress form is opened on
MaxSort == 2          \* number and metadata.numberSort of a book are 1..MaxSort
MaxActions == 2       \* chapter read actions in the queue of the host

(***************************************************************************)
(* JavaScript values.                                                      *)
(***************************************************************************)
Undefined == "<undefined>"
JSNull == "<null>"
NoURL == JSNull
NoCred == JSNull
ServerURL == "http://komga/api/v1"
StoredAuth == "Basic stored"
CallerAuth == "Basic caller"
JsonType == "application/json"

\* x == null in JavaScript: true of null and of undefined
IsNullish(x) == x \in {JSNull, Undefined}

(***************************************************************************)
(* Results of a call that may throw.                                       *)
(***************************************************************************)
Ok(v) == [ok |-> TRUE, value |-> v]
Throw(e) == [ok |-> FALSE, error |-> e]

(***************************************************************************)
(* Request headers: request.headers may be undefined (hasHeaders FALSE);   *)
(* when it is an object, each property may be missing (Undefined).         *)
(***************************************************************************)
HeaderNames == {"authorization", "content-type", "accept"}
EmptyHeaders == [h \in HeaderNames |-> Undefined]

\* Object.assign({}, a, b): the properties b defines win
Assign(a, b) == [h \in HeaderNames |-> IF b[h] # Undefined THEN b[h] ELSE a[h]]

\* getAuthorizationString of the tracker bundle: throws on unset credentials
getAuthorizationString(cred) ==
    IF cred = JSNull THEN Throw("CredentialsError") ELSE Ok(cred)

\* getAuthorizationString of ./Common, as the source plugin imports it
CommonGetAuthorizationString(cred) ==
    IF cred = JSNull THEN Throw("CredentialsError") ELSE Ok(cred)

\* getKomgaAPI of ./Common: the stored API root, null when none is stored
CommonGetKomgaAPI(url) == url

\* a variant that injects the stored credentials into every request
KomgaInterceptAlwaysInject(request, cred) ==
    LET h == IF ~request.hasHeaders THEN EmptyHeaders ELSE request.headers
        a == CommonGetAuthorizationString(cred)
    IN  IF a.ok
        THEN Ok([request EXCEPT !.hasHeaders = TRUE,
                   !.headers = [h EXCEPT !["authorization"] = a.value]])
        ELSE a

\* KomgaRequestInterceptor.interceptRequest (source plugin)
KomgaInterceptRequest(request, cred) ==
    LET h == IF ~request.hasHeaders THEN EmptyHeaders ELSE request.headers
    IN  IF IsNullish(h["authorization"])
        THEN LET a == CommonGetAuthorizationString(cred)
             IN  IF a.ok
                 THEN Ok([request EXCEPT !.hasHeaders = TRUE,
                            !.headers = [h EXCEPT !["authorization"] = a.value]])
                 ELSE a
        ELSE Ok([request EXCEPT !.hasHeaders = TRUE, !.headers = h])

\* requestManager.interceptor.interceptRequest (tracker bundle)
TrackerInterceptRequest(request, cred) ==
    LET a == getAuthorizationString(cred)
        h == IF ~request.hasHeaders THEN EmptyHeaders ELSE request.headers
    IN  IF ~a.ok THEN a
        ELSE Ok([request EXCEPT !.hasHeaders = TRUE, !.headers =
                Assign(Assign(h, [EmptyHeaders EXCEPT
                                    !["content-type"] = JsonType,
                                    !["accept"] = JsonType]),
                       IF ~IsNullish(a.value)
                       THEN [EmptyHeaders EXCEPT !["authorization"] = a.value]
                       ELSE EmptyHeaders)])

\* the requests a caller may hand to requestManager.schedule
AuthValues == {Undefined, JSNull, CallerAuth}
RequestHeaders ==
    {[EmptyHeaders EXCEPT !["authorization"] = a, !["content-type"] = c] :
        a \in AuthValues, c \in {Undefined, JsonType}}
Requests ==
    {[method |-> "GET", hasHeaders |-> FALSE, headers |-> EmptyHeaders]} \cup
    [method : {"GET", "PATCH"}, hasHeaders : {TRUE}, headers : RequestHeaders]

NoIntercept == [plugin |-> "none"]

(***************************************************************************)
(* requestManager.schedule of the source plugin: the request first goes    *)
(* through the interceptor; a request built on a null API root has the URL *)
(* "null/..." and reaches no server; otherwise the server answers, or the  *)
(* transport fails.  "ok" is a JSON body, "malformed" a body that          *)
(* JSON.parse rejects.                                                     *)
(***************************************************************************)
PlainRequest == [method |-> "GET", hasHeaders |-> FALSE, headers |-> EmptyHeaders]

\* a variant that takes a body JSON.parse rejects for an empty answer
ParseBodyLenient(outcome) == Ok(outcome)

\* typeof response.data === 'string' ? JSON.parse(response.data) : response.data
ParseBody(outcome) ==
    IF outcome = "malformed" THEN Throw("MalformedResponseError") ELSE Ok(outcome)

ScheduleOutcomes(url, cred) ==
    IF ~KomgaInterceptRequest(PlainRequest, cred).ok THEN {"CredentialsError"}
    ELSE IF url = NoURL THEN {"TransportError"}
    ELSE {"ok", "malformed", "TransportError"}

IsError(outcome) == outcome \in {"CredentialsError", "TransportError"}

(***************************************************************************)
(* Strings that the code takes apart or puts together are sequences of     *)
(* characters.                                                             *)
(***************************************************************************)
WordChars == {"a", "b", "A", "B"}
ToUpperCase(c) == IF c = "a" THEN "A" ELSE IF c = "b" THEN "B" ELSE c

\* capitalize: tag.replace(/^\w/, (c) => c.toUpperCase())
capitalize(tag) ==
    IF Len(tag) > 0 /\ tag[1] \in WordChars
    THEN <<ToUpperCase(tag[1])>> \o SubSeq(tag, 2, Len(tag))
    ELSE tag

GenrePrefix == <<"g", "e", "n", "r", "e", "-">>
TagPrefix == <<"t", "a", "g", "-">>
CollectionPrefix == <<"c", "o", "l", "l", "e", "c", "t", "i", "o", "n", "-">>
LibraryPrefix == <<"l", "i", "b", "r", "a", "r", "y", "-">>

\* a variant that builds the id from the capitalized text
createTagCapitalized(prefix, rawId, name) ==
    [id |-> prefix \o capitalize(rawId), label |-> capitalize(name)]

\* App.createTag({ id: prefix + elem, label: capitalize(name) })
createTag(prefix, rawId, name) == [id |-> prefix \o rawId, label |-> capitalize(name)]

MapTags(prefix, elems) ==
    [i \in 1..Len(elems) |-> createTag(prefix, elems[i].id, elems[i].name)]

\* names the server may hold; genres and series tags are their own id
Names == {<<"a">>, <<"a", "-", "b">>}
NamedElems == {[id |-> n, name |-> n] : n \in Names}
StringLists == {<<>>} \cup {<<e>> : e \in NamedElems}
CollectionElems(n) == [i \in 1..n |-> [id |-> <<"b">>, name |-> <<"a">>]]
CollectionLists == {CollectionElems(n) : n \in 0..MaxCollections}

(***************************************************************************)
(* getTags                                                                 *)
(***************************************************************************)
TagsIdle == [pc |-> "idle"]

PlaceholderTags == <<[id |-> "-1", label |-> "Server unavailable", tags |-> <<>>]>>

\* lines 182-200: the four sections with their tags
AllTagSections(data) ==
    << [id |-> "0", label |-> "genres", tags |-> MapTags(GenrePrefix, data[1])],
       [id |-> "1", label |-> "tags", tags |-> MapTags(TagPrefix, data[2])],
       [id |-> "2", label |-> "collections",
        tags |-> MapTags(CollectionPrefix, data[3])],
       [id |-> "3", label |-> "libraries",
        tags |-> MapTags(LibraryPrefix, data[4])] >>

\* a variant that keeps the collections section of a single collection
BuildTagSectionsKeepSingle(data) ==
    LET all == AllTagSections(data)
    IN  IF Len(data[3]) < 1
        THEN <<all[1], all[2], all[4]>>
        ELSE all

\* lines 182-204: the four sections, the collections one spliced out
BuildTagSections(data) ==
    LET all == AllTagSections(data)
    IN  IF Len(data[3]) <= 1
        THEN <<all[1], all[2], all[4]>>
        ELSE all

ResponseData(i) == IF i = 3 THEN CollectionLists ELSE StringLists

\* a variant whose try block ends before the libraries request
TagsAfterLibrariesUnguarded(t, outcome, d) ==
    IF IsError(outcome)
    THEN IF t.next = 4
         THEN [t EXCEPT !.pc = "raised", !.outcomes = Append(@, outcome)]
         ELSE [t EXCEPT !.pc = "returned", !.outcomes = Append(@, outcome),
                        !.result = PlaceholderTags]
    ELSE [t EXCEPT !.pc = IF t.next = 4 THEN "parse" ELSE "request",
                   !.next = @ + 1,
                   !.outcomes = Append(@, outcome),
                   !.data = Append(@, d)]

\* lines 148-173: one awaited schedule() of the try block, and its catch
TagsAfter(t, outcome, d) ==
    IF IsError(outcome)
    THEN [t EXCEPT !.pc = "returned", !.outcomes = Append(@, outcome),
                   !.result = PlaceholderTags]
    ELSE [t EXCEPT !.pc = IF t.next = 4 THEN "parse" ELSE "request",
                   !.next = @ + 1,
                   !.outcomes = Append(@, outcome),
                   !.data = Append(@, d)]

TagsStart ==
    /\ op = "idle"
    /\ op' = "getTags"
    /\ tags' = [pc |-> "request", next |-> 1, komgaAPI |-> CommonGetKomgaAPI(baseURL),
                outcomes |-> <<>>, data |-> <<>>, result |-> <<>>]
    /\ UNCHANGED <<baseURL, credentials, icpt, home, vm, fu, form, queue, details>>

\* one awaited schedule() of the try block, lines 148-173
TagsRequest ==
    /\ op = "getTags" /\ tags.pc = "request"
    /\ \E outcome \in ScheduleOutcomes(tags.komgaAPI, credentials) :
       \E d \in IF outcome = "ok" THEN ResponseData(tags.next) ELSE {<<>>} :
          tags' = TagsAfter(tags, outcome, d)
    /\ UNCHANGED <<baseURL, credentials, op, icpt, home, vm, fu, form, queue, details>>

\* lines 174-204: outside the try block, JSON.parse may throw
TagsParse ==
    /\ op = "getTags" /\ tags.pc = "parse"
    /\ IF \E i \in 1..4 : ~ParseBody(tags.outcomes[i]).ok
       THEN tags' = [tags EXCEPT !.pc = "raised"]
       ELSE tags' = [tags EXCEPT !.pc = "returned",
                         !.result = BuildTagSections(tags.data)]
    /\ UNCHANGED <<baseURL, credentials, op, icpt, home, vm, fu, form, queue, details>>

TagsDone ==
    /\ op = "getTags" /\ tags.pc \in {"returned", "raised"}
    /\ op' = "idle"
    /\ tags' = TagsIdle
    /\ UNCHANGED <<baseURL, credentials, icpt, home, vm, fu, form, queue, details>>

(***************************************************************************)
(* getHomePageSections                                                     *)
(***************************************************************************)
HomeIdle == [pc |-> "idle"]

\* getServerUnavailableMangaTiles of ./Common
ServerUnavailableTiles == <<[title |-> "Server", image |-> <<"">>, mangaId |-> <<"placeholder-id">>]>>

\* getOptions of ./Common: the two stored display preferences
OptionValues == [showOnDeck : BOOLEAN, showContinueReading : BOOLEAN]

\* lines 349-385: the sections, in the order they are pushed
HomeSections(options) ==
    (IF options.showOnDeck THEN <<"ondeck">> ELSE <<>>) \o
    (IF options.showContinueReading THEN <<"continue">> ELSE <<>>) \o
    <<"new", "updated">>

\* lines 391-410: the switch on section.id
ApiPath(komgaAPI, id) ==
    IF id = "ondeck" THEN <<komgaAPI, "books", id>>
    ELSE IF id = "continue" THEN <<komgaAPI, "books">>
    ELSE <<komgaAPI, "series", id>>
ThumbPath(komgaAPI, id) ==
    IF id \in {"ondeck", "continue"} THEN <<komgaAPI, "books">>
    ELSE <<komgaAPI, "series">>
IdProp(id) == IF id \in {"ondeck", "continue"} THEN "seriesId" ELSE "id"

\* what the server lists under a path: books carry a seriesId, series do not
Serie(path, i) ==
    IF path[2] = "books"
    THEN [id |-> <<"book", i>>, seriesId |-> <<"series", i>>, title |-> i]
    ELSE [id |-> <<"series", i>>, seriesId |-> <<Undefined>>, title |-> i]
Content(path, n) == [i \in 1..n |-> Serie(path, i)]

\* a variant whose callbacks share the thumbPath and idProp of the last section
HomeTilesShared(komgaAPI, id, content) ==
    [i \in 1..Len(content) |->
        [title |-> content[i].title,
         image |-> ThumbPath(komgaAPI, "updated") \o content[i].id \o <<"thumbnail">>,
         mangaId |-> content[i][IdProp("updated")]]]

\* lines 419-431: the tiles of one response
HomeTiles(komgaAPI, id, content) ==
    [i \in 1..Len(content) |->
        [title |-> content[i].title,
         image |-> ThumbPath(komgaAPI, id) \o content[i].id \o <<"thumbnail">>,
         mangaId |-> content[i][IdProp(id)]]]

AllFulfilled(promises) == \A i \in 1..Len(promises) : promises[i] = "fulfilled"

\* Promise.all(promises) as the awaiting operation sees it after a settlement
JoinAfter(pc, promises, settled) ==
    IF pc # "awaiting" THEN pc
    ELSE IF settled = "rejected" THEN "raised"
    ELSE IF AllFulfilled(promises) THEN "returned"
    ELSE "awaiting"

\* lines 338-344: the section shown while the server settings are unset
UnsetSection == [id |-> "unset", populated |-> TRUE, items |-> ServerUnavailableTiles]

\* a variant that schedules the requests without notifying the empty sections
HomeFanOutSilent(komgaAPI, options) ==
    LET ids == HomeSections(options)
    IN  [pc |-> "awaiting", sections |-> ids,
         promises |-> [i \in 1..Len(ids) |-> "pending"],
         outcomes |-> [i \in 1..Len(ids) |-> "pending"],
         served |-> [i \in 1..Len(ids) |-> <<>>],
         komgaAPI |-> komgaAPI, scheduled |-> Len(ids),
         notified |-> <<>>]

\* lines 386-435: every section is notified empty and its request scheduled
HomeFanOut(komgaAPI, options) ==
    LET ids == HomeSections(options)
    IN  [pc |-> "awaiting", sections |-> ids,
         served |-> [i \in 1..Len(ids) |-> <<>>],
         promises |-> [i \in 1..Len(ids) |-> "pending"],
         outcomes |-> [i \in 1..Len(ids) |-> "pending"],
         komgaAPI |-> komgaAPI, scheduled |-> Len(ids),
         notified |-> [i \in 1..Len(ids) |->
                         [id |-> ids[i], populated |-> FALSE, items |-> <<>>]]]

\* a variant without the test of the server settings
HomeBeginUnchecked(komgaAPI, options) == HomeFanOut(komgaAPI, options)

\* lines 330-437 up to the await: no suspension point in the loop
HomeBegin(komgaAPI, options) ==
    IF komgaAPI = JSNull
    THEN [pc |-> "returned", sections |-> <<>>, promises |-> <<>>,
          outcomes |-> <<>>, served |-> <<>>,
          komgaAPI |-> komgaAPI, scheduled |-> 0,
          notified |-> <<UnsetSection>>]
    ELSE HomeFanOut(komgaAPI, options)

HomeStart ==
    /\ op = "idle"
    /\ op' = "home"
    /\ \E options \in OptionValues :
         home' = HomeBegin(CommonGetKomgaAPI(baseURL), options)
    /\ UNCHANGED <<baseURL, credentials, icpt, tags, vm, fu, form, queue, details>>

\* lines 417-434 and 437: one section's request settles; its then-callback runs
HomeSettle(i) ==
    /\ op = "home"
    /\ i \in 1..Len(home.sections)
    /\ home.promises[i] = "pending"
    /\ \E outcome \in ScheduleOutcomes(home.komgaAPI, credentials) :
       \E n \in IF outcome = "ok" THEN 0..MaxTiles ELSE {0} :
         LET id == home.sections[i]
             settled == IF ~IsError(outcome) /\ ParseBody(outcome).ok
                        THEN "fulfilled" ELSE "rejected"
             promises == [home.promises EXCEPT ![i] = settled]
             content == Content(ApiPath(home.komgaAPI, id), n)
             tiles == HomeTiles(home.komgaAPI, id, content)
         IN  home' = [home EXCEPT
                        !.promises = promises,
                        !.outcomes = [@ EXCEPT ![i] = outcome],
                        !.served = [@ EXCEPT ![i] = content],
                        !.notified = IF outcome = "ok"
                                     THEN Append(@, [id |-> id, populated |-> TRUE,
                                                     items |-> tiles])
                                     ELSE @,
                        !.pc = JoinAfter(home.pc, promises, settled)]
    /\ UNCHANGED <<baseURL, credentials, op, icpt, tags, vm, fu, form, queue, details>>

HomeDone ==
    /\ op = "home" /\ home.pc \in {"returned", "raised"}
    /\ op' = "idle"
    /\ home' = HomeIdle
    /\ UNCHANGED <<baseURL, credentials, icpt, tags, vm, fu, form, queue, details>>

(***************************************************************************)
(* getViewMoreItems, and a host that loads page after page                 *)
(***************************************************************************)
VmIdle == [pc |-> "idle"]
NoMetadata == [has |-> FALSE, page |-> 0]
Cursor(p) == [has |-> TRUE, page |-> p]

\* line 441: metadata?.page ?? 0
PageOf(metadata) == IF metadata.has THEN metadata.page ELSE 0

\* the series the server lists on a page: n of them, told apart by page and rank
Listing(page, n) == [i \in 1..n |-> [id |-> <<page, i>>, title |-> i]]

\* lines 449-459
ViewMoreTiles(komgaAPI, content) ==
    [i \in 1..Len(content) |->
        [title |-> content[i].title,
         image |-> <<komgaAPI, "series">> \o content[i].id \o <<"thumbnail">>,
         mangaId |-> content[i].id]]

\* a variant that hands back the page it was asked for
NextMetadataSamePage(tiles, page) ==
    IF Len(tiles) = 0 THEN NoMetadata ELSE Cursor(page)

\* a variant that always hands back a cursor
NextMetadataAlways(tiles, page) == Cursor(page + 1)

\* line 461: if no series were returned we are on the last page
NextMetadata(tiles, page) ==
    IF Len(tiles) = 0 THEN NoMetadata ELSE Cursor(page + 1)

\* lines 439-447: the call up to its one awaited request
ViewMoreCall(v, metadata) ==
    [v EXCEPT !.pc = "requesting", !.metadata = metadata,
              !.page = PageOf(metadata), !.calls = @ + 1,
              !.requests = Append(@, PageOf(metadata))]

\* the host opens a section's "view more" list, or loads one page of it
VmStart ==
    /\ op = "idle"
    /\ op' = "viewMore"
    /\ \E walk \in BOOLEAN, section \in {"new", "updated"} :
       \E metadata \in IF walk THEN {NoMetadata}
                       ELSE {NoMetadata} \cup {Cursor(p) : p \in 0..MaxPage} :
         vm' = ViewMoreCall([pc |-> "idle", walk |-> walk, section |-> section,
                             komgaAPI |-> CommonGetKomgaAPI(baseURL),
                             metadata |-> NoMetadata, page |-> 0, calls |-> 0,
                             requests |-> <<>>, counts |-> <<>>, served |-> <<>>,
                             yielded |-> <<>>,
                             result |-> [results |-> <<>>, metadata |-> NoMetadata]],
                            metadata)
    /\ UNCHANGED <<baseURL, credentials, icpt, tags, home, fu, form, queue, details>>

\* lines 447-465: the response arrives; pages past MaxPage are empty
VmRespond ==
    /\ op = "viewMore" /\ vm.pc = "requesting"
    /\ \E outcome \in ScheduleOutcomes(vm.komgaAPI, credentials) :
       \E n \in IF outcome = "ok" /\ vm.page <= MaxPage THEN 0..MaxItems ELSE {0} :
         IF outcome = "ok"
         THEN LET content == Listing(vm.page, n)
                  tiles == ViewMoreTiles(vm.komgaAPI, content)
              IN  vm' = [vm EXCEPT !.pc = "returned",
                            !.counts = Append(@, n),
                            !.served = content,
                            !.yielded = @ \o tiles,
                            !.result = [results |-> tiles,
                                        metadata |-> NextMetadata(tiles, vm.page)]]
         ELSE vm' = [vm EXCEPT !.pc = "raised"]
    /\ UNCHANGED <<baseURL, credentials, op, icpt, tags, home, fu, form, queue, details>>

\* the host asks for the next page with the cursor it was given
VmNext ==
    /\ op = "viewMore" /\ vm.walk /\ vm.pc = "returned"
    /\ vm.result.metadata.has
    /\ vm.result.metadata.page <= MaxPage + 2
    /\ vm' = ViewMoreCall(vm, vm.result.metadata)
    /\ UNCHANGED <<baseURL, credentials, op, icpt, tags, home, fu, form, queue, details>>

VmDone ==
    /\ op = "viewMore"
    /\ \/ vm.pc = "raised"
       \/ vm.pc = "returned" /\ (~vm.walk \/ ~vm.result.metadata.has)
    /\ op' = "idle"
    /\ vm' = VmIdle
    /\ UNCHANGED <<baseURL, credentials, icpt, tags, home, fu, form, queue, details>>

(***************************************************************************)
(* filterUpdatedManga                                                      *)
(***************************************************************************)
FuIdle == [pc |-> "idle"]

\* JavaScript values of the walk: the ids are strings, the series are objects
JSString(v) == [type |-> "string", v |-> v, id |-> v, lastModified |-> 0]
JSSerie(id, t) == [type |-> "object", v |-> "", id |-> id, lastModified |-> t]

\* a === b: a string is never identical to an object; the objects of a parsed
\* response are identical only to themselves
StrictEquals(a, b) ==
    /\ a.type = b.type
    /\ IF a.type = "string" THEN a.v = b.v ELSE a = b

\* line 490: ids.includes(serie)
Includes(ids, x) == \E i \in 1..Len(ids) : StrictEquals(ids[i], x)

SerieIds == {"s1", "s2"}
Times == 1..MaxTime
Series == {JSSerie(id, t) : id \in SerieIds, t \in Times}
RECURSIVE SeqsUpTo(_, _)
SeqsUpTo(S, n) ==
    IF n = 0 THEN {<<>>}
    ELSE LET shorter == SeqsUpTo(S, n - 1)
         IN  shorter \cup {Append(q, x) : q \in {r \in shorter : Len(r) = n - 1}, x \in S}
UpdatedPages == SeqsUpTo(Series, MaxContent)
IdLists == {<<>>, <<JSString("s1")>>, <<JSString("s2")>>,
            <<JSString("s1"), JSString("s2")>>}

\* lines 487-497: the for loop over result.content, with its break
RECURSIVE ScanFrom(_, _, _, _, _)
ScanFrom(content, i, time, ids, found) ==
    IF i > Len(content)
    THEN [foundIds |-> found, broke |-> FALSE, examined |-> Len(content)]
    ELSE IF content[i].lastModified >= time
         THEN ScanFrom(content, i + 1, time, ids,
                       IF Includes(ids, content[i])
                       THEN Append(found, content[i]) ELSE found)
         ELSE [foundIds |-> found, broke |-> TRUE, examined |-> i]

\* a variant whose loop notes the stale series but goes on to the end of the page
ScanContentNoBreak(content, time, ids, found) ==
    [foundIds |-> found \o SelectSeq(content,
                               LAMBDA x : x.lastModified >= time /\ Includes(ids, x)),
     broke |-> \E i \in 1..Len(content) : content[i].lastModified < time,
     examined |-> Len(content)]

\* a variant that matches the candidates by id and leaves out the watermark
ScanContentNoWatermark(content, time, ids, found) ==
    [foundIds |-> found \o SelectSeq(content,
                               LAMBDA x : Includes(ids, JSString(x.id))),
     broke |-> FALSE, examined |-> Len(content)]

ScanContent(content, time, ids, found) == ScanFrom(content, 1, time, ids, found)

\* the identifiers of the series of content[1..k] that are at or after the
\* watermark and among the candidates
Matches(content, k, time, ids) ==
    {content[i].id : i \in {j \in 1..k : /\ content[j].lastModified >= time
                                         /\ Includes(ids, JSString(content[j].id))}}

\* the rank of the first series of the page that is older than the watermark
FirstStale(content, time) ==
    LET stale == {i \in 1..Len(content) : content[i].lastModified < time}
    IN  IF stale = {} THEN 0 ELSE CHOOSE i \in stale : \A j \in stale : i <= j

\* a variant that skips a page
NextPageSkips(page) == page + 2

\* line 502: page = page + 1
NextPage(page) == page + 1

\* lines 468-485: up to the first awaited request
FuStart ==
    /\ op = "idle"
    /\ op' = "filterUpdated"
    /\ \E time \in Times, ids \in IdLists :
         fu' = [pc |-> "requesting", komgaAPI |-> CommonGetKomgaAPI(baseURL),
                time |-> time, ids |-> ids, page |-> 0, foundIds |-> <<>>,
                loadMore |-> TRUE, requests |-> <<0>>, reported |-> <<>>,
                expected |-> {}, stopId |-> "", lastCount |-> 0,
                responses |-> 0, examined |-> 0, firstStale |-> 0,
                newMatches |-> {}, called |-> FALSE]
    /\ UNCHANGED <<baseURL, credentials, icpt, tags, home, vm, form, queue, details>>

\* lines 485-510: one response of the loop, and the next request if any
FuRespond ==
    /\ op = "filterUpdated" /\ fu.pc = "requesting"
    /\ \E outcome \in ScheduleOutcomes(fu.komgaAPI, credentials) :
       \E content \in IF outcome = "ok" /\ fu.page <= MaxUpdPage
                      THEN UpdatedPages ELSE {<<>>} :
         IF outcome = "ok"
         THEN LET scan == ScanContent(content, fu.time, fu.ids, fu.foundIds)
                  loadMore == ~scan.broke /\ Len(content) # 0
                  page == NextPage(fu.page)
                  seen == IF scan.broke THEN scan.examined - 1 ELSE scan.examined
              IN  fu' = [fu EXCEPT
                           !.pc = IF loadMore THEN "requesting" ELSE "returned",
                           !.page = page,
                           !.foundIds = scan.foundIds,
                           !.loadMore = loadMore,
                           !.requests = IF loadMore THEN Append(@, page) ELSE @,
                           !.reported = IF Len(scan.foundIds) > 0
                                        THEN Append(@, scan.foundIds) ELSE @,
                           !.expected = @ \cup Matches(content, seen, fu.time, fu.ids),
                           !.stopId = IF scan.broke
                                      THEN content[scan.examined].id ELSE @,
                           !.lastCount = Len(content),
                           !.responses = @ + 1,
                           !.examined = scan.examined,
                           !.firstStale = FirstStale(content, fu.time),
                           !.newMatches = Matches(content, seen, fu.time, fu.ids),
                           !.called = Len(scan.foundIds) > 0]
         ELSE fu' = [fu EXCEPT !.pc = "raised", !.responses = @ + 1]
    /\ UNCHANGED <<baseURL, credentials, op, icpt, tags, home, vm, form, queue, details>>

FuDone ==
    /\ op = "filterUpdated" /\ fu.pc \in {"returned", "raised"}
    /\ op' = "idle"
    /\ fu' = FuIdle
    /\ UNCHANGED <<baseURL, credentials, icpt, tags, home, vm, form, queue, details>>

(***************************************************************************)
(* The interceptors, called by the request managers on every request.      *)
(***************************************************************************)
SourceIntercept ==
    /\ op = "idle"
    /\ op' = "intercept"
    /\ \E r \in Requests :
         icpt' = [plugin |-> "source", request |-> r,
                  result |-> KomgaInterceptRequest(r, credentials)]
    /\ UNCHANGED <<baseURL, credentials, tags, home, vm, fu, form, queue, details>>

TrackerIntercept ==
    /\ op = "idle"
    /\ op' = "intercept"
    /\ \E r \in Requests :
         icpt' = [plugin |-> "tracker", request |-> r,
                  result |-> TrackerInterceptRequest(r, credentials)]
    /\ UNCHANGED <<baseURL, credentials, tags, home, vm, fu, form, queue, details>>

\* the request manager goes on with the intercepted request, or rejects
InterceptDone ==
    /\ op = "intercept"
    /\ op' = "idle"
    /\ icpt' = NoIntercept
    /\ UNCHANGED <<baseURL, credentials, tags, home, vm, fu, form, queue, details>>

(***************************************************************************)
(* getMangaProgressManagementForm of the source plugin (lines 539-639) and *)
(* of the tracker bundle (lines 1294-1397).  A book has an id (its place   *)
(* in the series), a display number and a sort key metadata.numberSort.    *)
(* A mutation request is a PATCH of one book's read progress or the DELETE *)
(* of the read progress of the whole series (target WholeSeries).          *)
(***************************************************************************)
NoCount == -1      \* tempData.booksReadCount before sections() has set it
NoProgress == -1   \* values.progress is null or undefined
WholeSeries == 0

\* the display number of a book is its sort key unless its metadata were
\* edited; an edited number is taken to be the sort key that follows
Book ==
    {b \in [id : 1..MaxBooks, number : 1..MaxSort,
            metadata : [numberSort : 1..MaxSort]] :
        b.number \in {b.metadata.numberSort, (b.metadata.numberSort % MaxSort) + 1}}
BookLists ==
    UNION {{b \in [1..n -> Book] : \A i \in 1..n : b[i].id = i} : n \in 0..MaxBooks}

FormIdle ==
    [pc |-> "idle", plugin |-> "none", komgaAPI |-> JSNull,
     booksReadCount |-> NoCount, progress |-> NoProgress, books |-> <<>>,
     log |-> <<>>, status |-> <<>>, applied |-> <<>>,
     series |-> <<>>, read |-> {}, stepper |-> FALSE]

\* getKomgaAPI of the tracker bundle: throws on an unset server URL
getKomgaAPI(url) ==
    IF url = JSNull THEN Throw("Unset server URL in source settings") ELSE Ok(url)

\* what requestManager.schedule can do with a request of a form
FormOutcomes(plugin, url, cred) ==
    IF plugin = "source" THEN ScheduleOutcomes(url, cred)
    ELSE IF ~TrackerInterceptRequest(PlainRequest, cred).ok
         THEN {"CredentialsError"}
         ELSE {"ok", "malformed", "TransportError"}

\* a mutation request is applied by the server ("ok"), answered with an error
\* status and not applied ("refused"), or schedule throws ("failed"); the
\* body of the answer is not read
MutationOutcomes(plugin, url, cred) ==
    IF "ok" \in FormOutcomes(plugin, url, cred)
    THEN {"ok", "refused", "failed"}
    ELSE {"failed"}

\* lines 593 and 1351: nothing to do
NoChanges(progress, booksReadCount) ==
    progress = NoProgress \/ progress = booksReadCount

\* a variant that sends no reset of the series
ResetRequestNone == [method |-> "PATCH", target |-> WholeSeries, completed |-> FALSE]

\* lines 612-619
ResetRequest == [method |-> "DELETE", target |-> WholeSeries, completed |-> FALSE]

\* a variant that marks the books at or below the target unread
MarkUnread(book) == [method |-> "PATCH", target |-> book.id, completed |-> FALSE]

\* lines 623-631
MarkRead(book) == [method |-> "PATCH", target |-> book.id, completed |-> TRUE]

\* a variant of the source form that leaves out the book at the target
SourceSelectedBelow(book, progress) == book.metadata.numberSort < progress

\* line 622
SourceSelected(book, progress) == book.metadata.numberSort <= progress

\* a variant of the tracker form that marks every book read
TrackerCompletedAlways(book, progress) == TRUE

\* lines 1369-1390
TrackerCompleted(book, progress) == ~(book.number > progress)

\* a variant of the tracker form whose requests all address the first book
TrackerTargetFirst(books, i) == books[1].id

\* lines 1372 and 1383: the book the request of books[i] addresses
TrackerTarget(books, i) == books[i].id

\* lines 1368-1391
TrackerRequests(books, progress) ==
    [i \in 1..Len(books) |->
        [method |-> "PATCH", target |-> TrackerTarget(books, i),
         completed |-> TrackerCompleted(books[i], progress)]]

\* lines 621-622: the first book from place k on that the loop marks, or 0
NextMarked(books, progress, k) ==
    IF \E i \in k..Len(books) : SourceSelected(books[i], progress)
    THEN CHOOSE i \in k..Len(books) :
            /\ SourceSelected(books[i], progress)
            /\ \A j \in k..(i - 1) : ~SourceSelected(books[j], progress)
    ELSE 0

\* the book of the last request of the log, as a place in books
LastMarked(f) == IF Len(f.log) <= 1 THEN 0 ELSE f.log[Len(f.log)].target

\* a variant of the loop that does not wait for the answer to a PATCH
SourceLoopEager(f, k) ==
    LET i == NextMarked(f.books, f.progress, k + 1)
    IN  IF i = 0 THEN [f EXCEPT !.pc = "returned"]
        ELSE [f EXCEPT !.pc = "patching",
                       !.log = @ \o <<MarkRead(f.books[i]), MarkRead(f.books[i])>>,
                       !.status = @ \o <<"pending", "pending">>]

\* the loop of lines 621-634 goes on after place k: the next PATCH or the end
SourceLoop(f, k) ==
    LET i == NextMarked(f.books, f.progress, k + 1)
    IN  IF i = 0 THEN [f EXCEPT !.pc = "returned"]
        ELSE [f EXCEPT !.pc = "patching",
                       !.log = Append(@, MarkRead(f.books[i])),
                       !.status = Append(@, "pending")]

\* the books the server holds as read after it has applied a request: the
\* DELETE of lines 612-619 clears the series, a PATCH (lines 623-631 and
\* 1371-1389) sets one book to its "completed"
ServerApply(read, request) ==
    IF request.method = "DELETE" THEN {}
    ELSE IF request.completed THEN read \cup {request.target}
    ELSE read \ {request.target}

\* the answer to request k of the log has arrived
Answered(f, k, outcome) ==
    [f EXCEPT !.status[k] = outcome,
              !.applied = IF outcome = "ok" THEN Append(@, k) ELSE @,
              !.read = IF outcome = "ok" THEN ServerApply(@, f.log[k]) ELSE @]

\* lines 539-543 and 1294-1298: the form is built on the stored API root; the
\* server holds the books of the series and which of them are read
FormOpen ==
    /\ op = "idle"
    /\ op' = "form"
    /\ \E plugin \in {"source", "tracker"} :
         LET api == IF plugin = "source" THEN Ok(CommonGetKomgaAPI(baseURL))
                    ELSE getKomgaAPI(baseURL)
         IN  IF api.ok
             THEN \E series \in BookLists :
                  \E read \in SUBSET (1..Len(series)) :
                    form' = [FormIdle EXCEPT !.pc = "open", !.plugin = plugin,
                                             !.komgaAPI = api.value,
                                             !.series = series, !.read = read]
             ELSE form' = [FormIdle EXCEPT !.pc = "raised", !.plugin = plugin]
    /\ UNCHANGED <<baseURL, credentials, icpt, tags, home, vm, fu, queue, details>>

\* lines 545-550 and 1301-1305: sections() asks for the series
FormSections ==
    /\ op = "form" /\ form.pc = "open"
    /\ form' = [form EXCEPT !.pc = "loading"]
    /\ UNCHANGED <<baseURL, credentials, op, icpt, tags, home, vm, fu, queue, details>>

\* lines 551-590 and 1306-1348: result?.booksReadCount ?? 0, of the series
\* or of an answer that is not a series; the stepper 'progress' is a row of
\* the form only when the answer is a series
FormSectionsRespond ==
    /\ op = "form" /\ form.pc = "loading"
    /\ \E outcome \in FormOutcomes(form.plugin, form.komgaAPI, credentials) :
         IF outcome = "ok"
         THEN \E count \in {NoCount, Cardinality(form.read)} :
                form' = [form EXCEPT !.pc = "open",
                           !.booksReadCount = IF count = NoCount THEN 0 ELSE count,
                           !.stepper = count # NoCount]
         ELSE form' = [form EXCEPT !.pc = "open"]
    /\ UNCHANGED <<baseURL, credentials, op, icpt, tags, home, vm, fu, queue, details>>

\* the values a submit can carry: the stepper goes from 0 to booksCount
\* (lines 579-587); without the stepper there is no 'progress'
ProgressValues(f) ==
    IF f.stepper THEN 0..Len(f.series) ELSE {NoProgress}

\* lines 592-603 and 1350-1360
FormSubmit ==
    /\ op = "form" /\ form.pc = "open"
    /\ \E progress \in ProgressValues(form) :
         IF NoChanges(progress, form.booksReadCount)
         THEN form' = [form EXCEPT !.pc = "returned", !.progress = progress]
         ELSE IF form.plugin = "tracker" /\ ~getKomgaAPI(baseURL).ok
         THEN form' = [form EXCEPT !.pc = "raised", !.progress = progress]
         ELSE form' = [form EXCEPT !.pc = "fetching", !.progress = progress]
    /\ UNCHANGED <<baseURL, credentials, op, icpt, tags, home, vm, fu, queue, details>>

\* lines 603-619 and 1360-1392: the books arrive; the source form asks for the
\* reset of the series, the tracker form schedules one PATCH for every book
FormBooks ==
    /\ op = "form" /\ form.pc = "fetching"
    /\ \E outcome \in FormOutcomes(form.plugin, form.komgaAPI, credentials) :
         IF outcome # "ok"
         THEN form' = [form EXCEPT !.pc = "raised"]
         ELSE \E hasContent \in BOOLEAN :
                IF ~hasContent
                THEN form' = [form EXCEPT !.pc = "returned"]
                ELSE LET books == form.series
                     IN form' =
                         IF form.plugin = "source"
                         THEN [form EXCEPT !.pc = "resetting", !.books = books,
                                           !.log = <<ResetRequest>>,
                                           !.status = <<"pending">>]
                         ELSE [form EXCEPT
                                 !.pc = IF books = <<>> THEN "returned"
                                        ELSE "scheduled",
                                 !.books = books,
                                 !.log = TrackerRequests(books, form.progress),
                                 !.status = [i \in 1..Len(books) |-> "pending"]]
    /\ UNCHANGED <<baseURL, credentials, op, icpt, tags, home, vm, fu, queue, details>>

\* lines 612-621: the reset is awaited, then the loop starts
FormResetDone ==
    /\ op = "form" /\ form.pc = "resetting"
    /\ \E outcome \in MutationOutcomes(form.plugin, form.komgaAPI, credentials) :
         LET f == Answered(form, 1, outcome)
         IN  form' = IF outcome = "failed" THEN [f EXCEPT !.pc = "raised"]
                     ELSE SourceLoop(f, 0)
    /\ UNCHANGED <<baseURL, credentials, op, icpt, tags, home, vm, fu, queue, details>>

\* line 632: a PATCH is awaited, then the loop goes on
FormPatchDone ==
    /\ op = "form" /\ form.pc = "patching"
    /\ \E outcome \in MutationOutcomes(form.plugin, form.komgaAPI, credentials) :
         LET f == Answered(form, Len(form.log), outcome)
         IN  form' = IF outcome = "failed" THEN [f EXCEPT !.pc = "raised"]
                     ELSE SourceLoop(f, LastMarked(form))
    /\ UNCHANGED <<baseURL, credentials, op, icpt, tags, home, vm, fu, queue, details>>

\* line 1392: Promise.all over the scheduled requests; they settle in any
\* order, the first failure rejects, the last success resolves.  The form is
\* followed until onSubmit settles.
FormSettle(i) ==
    /\ op = "form" /\ form.pc = "scheduled"
    /\ i \in 1..Len(form.status) /\ form.status[i] = "pending"
    /\ \E outcome \in MutationOutcomes(form.plugin, form.komgaAPI, credentials) :
         LET status == [form.status EXCEPT ![i] = outcome]
         IN  form' = [Answered(form, i, outcome) EXCEPT
                        !.pc = IF outcome = "failed" THEN "raised"
                               ELSE IF \A j \in 1..Len(status) : status[j] # "pending"
                               THEN "returned" ELSE "scheduled"]
    /\ UNCHANGED <<baseURL, credentials, op, icpt, tags, home, vm, fu, queue, details>>

\* the form stays open after a submit: tempData and the server keep what
\* they hold, the next submit starts afresh
FormAgain ==
    /\ op = "form" /\ form.pc \in {"returned", "raised"}
    /\ form.plugin = "source" \/ form.komgaAPI # JSNull
    /\ form' = [form EXCEPT !.pc = "open", !.progress = NoProgress,
                            !.books = <<>>, !.log = <<>>, !.status = <<>>,
                            !.applied = <<>>]
    /\ UNCHANGED <<baseURL, credentials, op, icpt, tags, home, vm, fu, queue, details>>

\* the form is dismissed
FormDone ==
    /\ op = "form" /\ form.pc \in {"returned", "raised"}
    /\ op' = "idle"
    /\ form' = FormIdle
    /\ UNCHANGED <<baseURL, credentials, icpt, tags, home, vm, fu, queue, details>>

(***************************************************************************)
(* processChapterReadActionQueue of the source plugin (lines 641-682) and  *)
(* of the tracker bundle (lines 1398-1434).  A read action names the       *)
(* source it comes from and the chapter (a book of the server) it marks.   *)
(* The host's discardChapterReadAction and retryChapterReadAction record   *)
(* the disposition of an action.                                           *)
(***************************************************************************)
SourceIds == {"Paperback", "Other"}
ReadAction == [sourceId : SourceIds, sourceChapterId : 1..MaxBooks]
ActionQueues == UNION {[1..n -> ReadAction] : n \in 0..MaxActions}

QueueIdle ==
    [pc |-> "idle", plugin |-> "none", komgaAPI |-> JSNull, actions |-> <<>>,
     next |-> 0, requests |-> <<>>, disposed |-> <<>>, marked |-> {}]

\* a variant that sends a request for the actions of every source
SendsRequestAlways(readAction) == TRUE

\* lines 647 and 1403
SendsRequest(readAction) == ~(readAction.sourceId # "Paperback")

\* a variant that does not look at the status of the response
DispositionUnchecked(outcome) == IF outcome = "failed" THEN "retry" ELSE "discard"

\* lines 670-679 and 1419-1430: "ok" is a response with status < 400,
\* "refused" a response with another status, "failed" a rejected schedule
Disposition(outcome) == IF outcome = "ok" THEN "discard" ELSE "retry"

\* a variant of the loop that passes over every second action
NextActionSkips(next) == next + 2

\* lines 646 and 1402: for (const readAction of chapterReadActions)
NextAction(next) == next + 1

\* the loop goes on with the action at place k, or the operation returns
QueueLoop(q, k) ==
    [q EXCEPT !.next = k, !.pc = IF k > Len(q.actions) THEN "returned" ELSE "loop"]

\* lines 642-644 and 1400-1401
QueueStart ==
    /\ op = "idle"
    /\ op' = "queue"
    /\ \E plugin \in {"source", "tracker"}, actions \in ActionQueues :
         LET api == IF plugin = "source" THEN Ok(CommonGetKomgaAPI(baseURL))
                    ELSE getKomgaAPI(baseURL)
         IN  queue' = IF api.ok
                      THEN QueueLoop([QueueIdle EXCEPT !.plugin = plugin,
                                        !.komgaAPI = api.value,
                                        !.actions = actions], 1)
                      ELSE [QueueIdle EXCEPT !.pc = "raised", !.plugin = plugin,
                                             !.actions = actions]
    /\ UNCHANGED <<baseURL, credentials, icpt, tags, home, vm, fu, form, details>>

\* lines 647-665 and 1403-1418: an action of another source is discarded, for
\* an action of this source the PATCH is scheduled
QueueStep ==
    /\ op = "queue" /\ queue.pc = "loop"
    /\ LET a == queue.actions[queue.next]
       IN  queue' =
             IF SendsRequest(a)
             THEN [queue EXCEPT !.pc = "requesting",
                     !.requests = Append(@, [action |-> queue.next,
                                             target |-> a.sourceChapterId,
                                             outcome |-> "pending"])]
             ELSE QueueLoop([queue EXCEPT !.disposed =
                               Append(@, [action |-> queue.next,
                                          disposition |-> "discard"])],
                            NextAction(queue.next))
    /\ UNCHANGED <<baseURL, credentials, op, icpt, tags, home, vm, fu, form, details>>

\* lines 665-679 and 1418-1430: the answer decides between discard and retry
QueueAnswer ==
    /\ op = "queue" /\ queue.pc = "requesting"
    /\ \E outcome \in MutationOutcomes(queue.plugin, queue.komgaAPI, credentials) :
         queue' = QueueLoop(
             [queue EXCEPT
                !.disposed = Append(@, [action |-> queue.next,
                                        disposition |-> Disposition(outcome)]),
                !.requests[Len(queue.requests)] =
                    [action |-> queue.next,
                     target |-> queue.actions[queue.next].sourceChapterId,
                     outcome |-> outcome],
                !.marked = IF outcome = "ok"
                           THEN @ \cup {queue.actions[queue.next].sourceChapterId}
                           ELSE @],
             NextAction(queue.next))
    /\ UNCHANGED <<baseURL, credentials, op, icpt, tags, home, vm, fu, form, details>>

\* the operation has returned or rejected
QueueDone ==
    /\ op = "queue" /\ queue.pc \in {"returned", "raised"}
    /\ op' = "idle"
    /\ queue' = QueueIdle
    /\ UNCHANGED <<baseURL, credentials, icpt, tags, home, vm, fu, form, details>>

(***************************************************************************)
(* getMangaDetails of the source plugin (lines 206-248): the genres and    *)
(* the tags of the series become the two tag sections of the manga.        *)
(***************************************************************************)
DetailsIdle == [pc |-> "idle"]

\* lines 219-229
DetailTagSections(genres, seriesTags) ==
    << [id |-> "0", label |-> "genres", tags |-> MapTags(GenrePrefix, genres)],
       [id |-> "1", label |-> "tags", tags |-> MapTags(TagPrefix, seriesTags)] >>

\* lines 210-215
DetailsStart ==
    /\ op = "idle"
    /\ op' = "details"
    /\ details' = [pc |-> "request", komgaAPI |-> CommonGetKomgaAPI(baseURL),
                   data |-> <<>>, result |-> <<>>]
    /\ UNCHANGED <<baseURL, credentials, icpt, tags, home, vm, fu, form, queue>>

\* lines 215-248: nothing catches a failed request or a body that is not JSON
DetailsRespond ==
    /\ op = "details" /\ details.pc = "request"
    /\ \E outcome \in ScheduleOutcomes(details.komgaAPI, credentials) :
         IF IsError(outcome) \/ ~ParseBody(outcome).ok
         THEN details' = [details EXCEPT !.pc = "raised"]
         ELSE \E genres \in StringLists, seriesTags \in StringLists :
                details' = [details EXCEPT !.pc = "returned",
                              !.data = <<genres, seriesTags>>,
                              !.result = DetailTagSections(genres, seriesTags)]
    /\ UNCHANGED <<baseURL, credentials, op, icpt, tags, home, vm, fu, form, queue>>

DetailsDone ==
    /\ op = "details" /\ details.pc \in {"returned", "raised"}
    /\ op' = "idle"
    /\ details' = DetailsIdle
    /\ UNCHANGED <<baseURL, credentials, icpt, tags, home, vm, fu, form, queue>>

Init ==
    /\ baseURL \in {NoURL, ServerURL}
    /\ credentials \in {NoCred, StoredAuth}
    /\ op = "idle"
    /\ icpt = NoIntercept
    /\ tags = TagsIdle
    /\ home = HomeIdle
    /\ vm = VmIdle
    /\ fu = FuIdle
    /\ form = FormIdle
    /\ queue = QueueIdle
    /\ details = DetailsIdle

Next ==
    \/ SourceIntercept
    \/ TrackerIntercept
    \/ InterceptDone
    \/ TagsStart
    \/ TagsRequest
    \/ TagsParse
    \/ TagsDone
    \/ HomeStart
    \/ \E i \in 1..4 : HomeSettle(i)
    \/ HomeDone
    \/ VmStart
    \/ VmRespond
    \/ VmNext
    \/ VmDone
    \/ FuStart
    \/ FuRespond
    \/ FuDone
    \/ FormOpen
    \/ FormSections
    \/ FormSectionsRespond
    \/ FormSubmit
    \/ FormBooks
    \/ FormResetDone
    \/ FormPatchDone
    \/ \E i \in 1..MaxBooks : FormSettle(i)
    \/ FormAgain
    \/ FormDone
    \/ QueueStart
    \/ QueueStep
    \/ QueueAnswer
    \/ QueueDone
    \/ DetailsStart
    \/ DetailsRespond
    \/ DetailsDone

Spec == Init /\ [][Next]_vars

\* every scheduled request is answered or fails, and a host that loads page
\* after page asks for the next page once it holds a cursor
FairSpec == Spec /\ WF_vars(VmRespond) /\ WF_vars(VmNext) /\ WF_vars(FuRespond)

(***************************************************************************)
(* Properties                                                              *)
(***************************************************************************)
TagsFailed == \E i \in 1..Len(tags.outcomes) : IsError(tags.outcomes[i])

C2_HomeNeverRaises ==
    ( /\ op = "home" /\ baseURL # NoURL /\ credentials # NoCred
      /\ \A i \in 1..Len(home.outcomes) : home.outcomes[i] = "TransportError" )
    => home.pc = "returned"

\* C3: with no server configured, getHomePageSections does not raise,
\* schedules no request and notifies the host once, with the 'unset' section.
C3_HomeUnset ==
    (op = "home" /\ baseURL = NoURL) =>
        /\ home.pc = "returned"
        /\ home.scheduled = 0
        /\ home.notified = <<UnsetSection>>

C3_Witness ==
    /\ op = "home" /\ baseURL = NoURL /\ credentials = NoCred
    /\ home.pc = "returned" /\ Len(home.notified) = 1
    /\ home.notified[1].id = "unset"

LacksAuthorization(request) ==
    ~request.hasHeaders \/ IsNullish(request.headers["authorization"])

\* C4: the source plugin's interceptor sets the authorization header of a
\* request that lacks one to the stored authorization string, and leaves the
\* header of a request that carries one as it is.
C4_SourceAuthHeader ==
    icpt.plugin = "source" =>
        /\ (LacksAuthorization(icpt.request) /\ icpt.result.ok) =>
              /\ credentials # NoCred
              /\ icpt.result.value.headers["authorization"] = credentials
        /\ ~LacksAuthorization(icpt.request) =>
              /\ icpt.result.ok
              /\ icpt.result.value.headers["authorization"] =
                    icpt.request.headers["authorization"]

C4_Witness ==
    /\ icpt.plugin = "source" /\ ~icpt.request.hasHeaders
    /\ icpt.result.ok
    /\ icpt.result.value.headers["authorization"] = StoredAuth

\* C5: the tracker plugin's interceptor sends a request that carries its own
\* authorization header with that header.
C5_TrackerKeepsCallerAuth ==
    (icpt.plugin = "tracker" /\ ~LacksAuthorization(icpt.request)) =>
        /\ icpt.result.ok
        /\ icpt.result.value.headers["authorization"] =
              icpt.request.headers["authorization"]

\* C6: interception fails exactly when the request has no authorization
\* header and no credentials are stored.
C6_FailsIffCredentialsRequired ==
    icpt.plugin # "none" =>
        (~icpt.result.ok <=>
            (LacksAuthorization(icpt.request) /\ credentials = NoCred))

\* C7: getViewMoreItems issues one request, at the cursor's page (0 without a
\* cursor), and returns that page's items with the cursor page + 1 when the
\* page holds an item and with no cursor when it holds none.
C7_ViewMoreOnePage ==
    op = "viewMore" =>
        /\ Len(vm.requests) = vm.calls
        /\ vm.requests[Len(vm.requests)] = PageOf(vm.metadata)
        /\ vm.pc = "returned" =>
              /\ Len(vm.result.results) = Len(vm.served)
              /\ \A i \in 1..Len(vm.served) :
                    vm.result.results[i].mangaId = vm.served[i].id
              /\ vm.result.metadata =
                    IF Len(vm.served) > 0
                    THEN Cursor(PageOf(vm.metadata) + 1)
                    ELSE NoMetadata

C7_Witness ==
    /\ op = "viewMore" /\ ~vm.walk /\ vm.pc = "returned"
    /\ vm.metadata = Cursor(1)
    /\ Len(vm.result.results) = 2
    /\ vm.result.metadata = Cursor(2)

RECURSIVE TilesOfPages(_, _, _)
TilesOfPages(komgaAPI, counts, k) ==
    IF k = 0 THEN <<>>
    ELSE TilesOfPages(komgaAPI, counts, k - 1) \o
         ViewMoreTiles(komgaAPI, Listing(k - 1, counts[k]))

Walking == op = "viewMore" /\ vm.walk
WalkEnded == vm.pc = "returned" /\ ~vm.result.metadata.has

\* the pages 0, 1, 2, ... are requested, none after an empty page, and the
\* host holds every item of every page it received
WalkShape ==
    Walking =>
        /\ vm.requests = [j \in 1..Len(vm.requests) |-> j - 1]
        /\ Len(vm.counts) \in {Len(vm.requests) - 1, Len(vm.requests)}
        /\ \A j \in 1..Len(vm.counts) :
              vm.counts[j] = 0 => j = Len(vm.counts) /\ j = Len(vm.requests)
        /\ vm.yielded = TilesOfPages(vm.komgaAPI, vm.counts, Len(vm.counts))
        /\ WalkEnded => vm.counts[Len(vm.counts)] = 0

\* C8: a host that calls getViewMoreItems with the returned cursor until none
\* is returned stops at the first empty page, requests no later page and has
\* been given every item of the earlier pages.
C8_WalkStops ==
    /\ []WalkShape
    /\ Walking ~> (~Walking \/ WalkEnded \/ vm.pc = "raised")

C8_Witness ==
    /\ Walking /\ WalkEnded
    /\ vm.counts = <<5, 0>>
    /\ vm.requests = <<0, 1>>
    /\ Len(vm.yielded) = 5

C10_MatchesReported ==
    (op = "filterUpdated" /\ fu.pc \in {"requesting", "returned"}) =>
        \A id \in fu.expected :
            /\ \E k \in 1..Len(fu.foundIds) : fu.foundIds[k].id = id
            /\ Len(fu.reported) > 0
            /\ \E k \in 1..Len(fu.reported[Len(fu.reported)]) :
                  fu.reported[Len(fu.reported)][k].id = id

FuWalked == op = "filterUpdated" /\ fu.responses > 0 /\ fu.pc # "raised"
FuStopPage == fu.firstStale > 0 \/ fu.lastCount = 0

\* the walk returns exactly after a page that is empty or holds a stale
\* series, with no request after that page and no series examined after the
\* stale one
FuStopShape ==
    FuWalked =>
        /\ FuStopPage <=> fu.pc = "returned"
        /\ FuStopPage => Len(fu.requests) = fu.responses
        /\ fu.firstStale > 0 => fu.examined = fu.firstStale
        /\ fu.firstStale = 0 => fu.examined = fu.lastCount

\* C11: filterUpdatedManga stops at the first page that is empty or holds a
\* series older than the watermark: nothing after that series is examined,
\* no later page is requested, and the walk ends.
C11_WalkStopsAtStale ==
    /\ []FuStopShape
    /\ (op = "filterUpdated") ~> (op # "filterUpdated" \/ fu.pc \in {"returned", "raised"})

C11_Witness ==
    /\ FuWalked /\ fu.pc = "returned"
    /\ fu.responses = 2
    /\ fu.lastCount = 2 /\ fu.firstStale = 1 /\ fu.examined = 1

\* C12: whenever a page adds a match, the callback is invoked before the next
\* page is requested, with a non-empty list that holds the new match.
C12_MatchNotified ==
    (FuWalked /\ fu.newMatches # {}) =>
        /\ fu.called
        /\ Len(fu.reported) > 0
        /\ \A id \in fu.newMatches :
              \E k \in 1..Len(fu.reported[Len(fu.reported)]) :
                  fu.reported[Len(fu.reported)][k].id = id

\* C13: one walk requests the pages 0, 1, 2, ... in this order, each after
\* the response to the page before it was processed; at most one request of
\* the walk is in flight.
C13_PagesInOrder ==
    op = "filterUpdated" =>
        /\ fu.requests = [j \in 1..Len(fu.requests) |-> j - 1]
        /\ Len(fu.requests) - fu.responses \in {0, 1}
        /\ Len(fu.requests) - fu.responses = 1 <=> fu.pc = "requesting"

C13_Witness ==
    /\ op = "filterUpdated" /\ fu.pc = "requesting"
    /\ fu.requests = <<0, 1>> /\ fu.responses = 1

HomeFetching == op = "home" /\ home.komgaAPI # JSNull
Populated == {k \in 1..Len(home.notified) : k > Len(home.sections)}

\* C14: with a configured server, every section is first notified empty, in
\* the order of the sections and before any populated notification and before
\* the operation settles; each section whose fetch succeeds is then notified
\* once more, with its items.
C14_PlaceholdersFirst ==
    HomeFetching =>
        /\ Len(home.notified) >= Len(home.sections)
        /\ \A i \in 1..Len(home.sections) :
              /\ home.notified[i] =
                    [id |-> home.sections[i], populated |-> FALSE, items |-> <<>>]
              /\ home.promises[i] = "fulfilled" <=>
                    \E k \in Populated : home.notified[k].id = home.sections[i]
        /\ \A k \in Populated : home.notified[k].populated
        /\ \A k, l \in Populated :
              home.notified[k].id = home.notified[l].id => k = l

C14_Witness ==
    /\ HomeFetching /\ home.pc = "returned"
    /\ Len(home.sections) = 4
    /\ Len(home.notified) = 8

\* C15: getHomePageSections resolves or rejects only once the fetch of every
\* section has settled.
C15_SettledBeforeComplete ==
    (HomeFetching /\ home.pc \in {"returned", "raised"}) =>
        \A i \in 1..Len(home.promises) : home.promises[i] # "pending"

BookSections == {"ondeck", "continue"}

\* C16: whatever the order in which the section fetches complete, a populated
\* notification carries the section of the request that was answered and tiles
\* built from that answer alone, with that section's thumbnail path and id
\* property.
C16_SectionsIndependent ==
    HomeFetching =>
        \A k \in Populated :
            LET e == home.notified[k]
            IN  \E i \in 1..Len(home.sections) :
                  /\ home.sections[i] = e.id
                  /\ home.outcomes[i] = "ok"
                  /\ Len(e.items) = Len(home.served[i])
                  /\ \A j \in 1..Len(e.items) :
                        /\ e.items[j].image =
                              <<home.komgaAPI,
                                IF e.id \in BookSections THEN "books" ELSE "series">>
                              \o home.served[i][j].id \o <<"thumbnail">>
                        /\ e.items[j].mangaId =
                              IF e.id \in BookSections
                              THEN home.served[i][j].seriesId
                              ELSE home.served[i][j].id

\* the last section is populated while the first is still being fetched
C16_Witness ==
    /\ HomeFetching /\ Len(home.sections) = 4
    /\ home.promises[1] = "pending" /\ home.promises[2] = "rejected"
    /\ home.promises[4] = "fulfilled"
    /\ Len(home.notified) = 5
    /\ home.notified[5].id = "updated" /\ Len(home.notified[5].items) = 1

(***************************************************************************)
(* Progress forms.  The server keeps the set of books it holds as read: a  *)
(* PATCH puts its book into the set or takes it out, the DELETE empties    *)
(* the set.                                                                *)
(***************************************************************************)
BookIds == {form.books[i].id : i \in 1..Len(form.books)}
Chapters(request) ==
    IF request.method = "DELETE" THEN BookIds ELSE {request.target}
Patches == {i \in 1..Len(form.log) : form.log[i].method = "PATCH"}
AtOrBelow == {b \in BookIds : form.books[b].metadata.numberSort <= form.progress}
Mutating(plugin) == op = "form" /\ form.plugin = plugin /\ Len(form.log) > 0

RECURSIVE ServerApplyAll(_, _, _)
ServerApplyAll(read, log, order) ==
    IF order = <<>> THEN read
    ELSE ServerApplyAll(ServerApply(read, log[Head(order)]), log, Tail(order))

\* C17 (as stated): the source form marks read exactly the books whose sort
\* key is at or below the target and issues no request that affects a book
\* whose sort key is above it.
C17_SourceMarksOnly ==
    (Mutating("source") /\ form.pc = "returned") =>
        /\ {form.log[i].target : i \in Patches} = AtOrBelow
        /\ \A i \in 1..Len(form.log) : Chapters(form.log[i]) \subseteq AtOrBelow

\* C17 (amended): the first mutation request of the source form is the reset
\* of the whole series, which affects every book; every later request is a
\* "mark read" PATCH of a book whose sort key is at or below the target, each
\* book once and in the order of the list, and when the submit returns these
\* are exactly the books at or below the target.
C17_SourceMarksAfterReset ==
    Mutating("source") =>
        /\ form.log[1] = ResetRequest
        /\ Patches = 2..Len(form.log)
        /\ \A i \in Patches :
              /\ form.log[i].completed
              /\ form.log[i].target \in AtOrBelow
              /\ \A j \in Patches : j < i => form.log[j].target < form.log[i].target
        /\ form.pc = "returned" =>
              {form.log[i].target : i \in Patches} = AtOrBelow

C17_Witness ==
    /\ Mutating("source") /\ form.pc = "returned"
    /\ Len(form.books) = 2 /\ form.progress = 1
    /\ form.books[1].metadata.numberSort = 1
    /\ form.books[2].metadata.numberSort = 2
    /\ form.log = <<ResetRequest, MarkRead(form.books[1])>>

C19_DisjointTargets ==
    op = "form" =>
        \A i, j \in 1..Len(form.log) :
            i # j => Chapters(form.log[i]) \cap Chapters(form.log[j]) = {}

\* C19 (amended): in both forms the PATCH requests of one submit address
\* pairwise different books, so the server ends in the same read state in
\* whatever order it applies them; the reset of the source form affects every
\* book and is answered before the first PATCH is issued.
C19_PatchesDisjoint ==
    op = "form" =>
        /\ \A i, j \in Patches : i # j => form.log[i].target # form.log[j].target
        /\ \A i \in 1..Len(form.log) :
              form.log[i].method = "DELETE" =>
                  i = 1 /\ (Len(form.log) > 1 => form.status[1] # "pending")
        /\ Len(form.applied) = Len(form.log) =>
              \A read \in SUBSET BookIds :
                  ServerApplyAll(read, form.log, form.applied) =
                  ServerApplyAll(read, form.log, [i \in 1..Len(form.log) |-> i])

\* the server applied the second PATCH of the tracker form before the first
C19_Witness ==
    /\ Mutating("tracker") /\ form.pc = "returned"
    /\ form.applied = <<2, 1>>
    /\ form.log[1].completed /\ ~form.log[2].completed

\* C20: in both forms a book is marked read or unread by comparing its sort
\* key metadata.numberSort with the target.
C20_ComparesSortKey ==
    op = "form" =>
        \A i \in Patches :
            form.log[i].completed <=> form.log[i].target \in AtOrBelow

(***************************************************************************)
(* The queue of chapter read actions.                                      *)
(***************************************************************************)
Handled == 1..Len(queue.disposed)
DispositionsOf(i) ==
    {queue.disposed[k].disposition : k \in {j \in Handled : queue.disposed[j].action = i}}
RequestsOf(i) == {k \in 1..Len(queue.requests) : queue.requests[k].action = i}

\* C21: an action of this source whose request fails or is answered with an
\* error status is given "retry" and never "discard"; it is discarded only
\* when the server answered with a success status.
C21_RetryOnFailure ==
    op = "queue" =>
        \A k \in 1..Len(queue.requests) :
            LET r == queue.requests[k]
            IN  r.outcome # "pending" =>
                    DispositionsOf(r.action) =
                        {IF r.outcome = "ok" THEN "discard" ELSE "retry"}

C21_Witness ==
    /\ op = "queue" /\ queue.pc = "returned"
    /\ Len(queue.requests) = 2
    /\ queue.requests[1].outcome = "refused" /\ queue.requests[2].outcome = "ok"
    /\ queue.disposed[1].disposition = "retry"
    /\ queue.disposed[2].disposition = "discard"

\* C29: the actions are handled one at a time in the order of the queue, and
\* when the operation returns every action has exactly one disposition,
\* also the actions that come after one whose request failed.
C29_OneDispositionEach ==
    op = "queue" =>
        /\ \A k \in Handled : queue.disposed[k].action = k
        /\ \A k \in Handled : queue.disposed[k].disposition \in {"discard", "retry"}
        /\ Cardinality({k \in 1..Len(queue.requests) :
                            queue.requests[k].outcome = "pending"}) <= 1
        /\ queue.pc \in {"loop", "requesting"} => queue.next = Len(queue.disposed) + 1
        /\ queue.pc = "returned" => Len(queue.disposed) = Len(queue.actions)

C29_Witness ==
    /\ op = "queue" /\ queue.pc = "returned"
    /\ Len(queue.actions) = 2 /\ Len(queue.requests) = 2
    /\ queue.requests[1].outcome = "failed"
    /\ queue.disposed[1].disposition = "retry"
    /\ queue.disposed[2] = [action |-> 2, disposition |-> "discard"]

\* C30: an action of another source is discarded without a request and
\* without a change on the server; a PATCH is sent for the actions of source
\* 'Paperback' only, one for each, to the chapter of the action.
C30_ForeignActionsUntouched ==
    op = "queue" =>
        /\ \A i \in Handled :
              IF queue.actions[i].sourceId = "Paperback"
              THEN Cardinality(RequestsOf(i)) = 1
              ELSE RequestsOf(i) = {} /\ DispositionsOf(i) = {"discard"}
        /\ \A k \in 1..Len(queue.requests) :
              LET a == queue.actions[queue.requests[k].action]
              IN  a.sourceId = "Paperback" /\ queue.requests[k].target = a.sourceChapterId
        /\ queue.marked \subseteq
              {queue.requests[k].target : k \in 1..Len(queue.requests)}

C30_Witness ==
    /\ op = "queue" /\ queue.pc = "returned"
    /\ queue.actions = <<[sourceId |-> "Other", sourceChapterId |-> 1],
                         [sourceId |-> "Paperback", sourceChapterId |-> 2]>>
    /\ Len(queue.requests) = 1 /\ queue.requests[1].target = 2
    /\ queue.marked = {2}

(***************************************************************************)
(* The tag catalog.                                                        *)
(***************************************************************************)
TagsBuilt == op = "getTags" /\ tags.pc = "returned" /\ Len(tags.data) = 4
Labels(sections) == [i \in 1..Len(sections) |-> sections[i].label]

\* C22: the catalog getTags returns is genres, tags, libraries when the
\* server reports no collection or one, and genres, tags, collections,
\* libraries when it reports two or more.
C22_CollectionsSuppressed ==
    TagsBuilt =>
        Labels(tags.result) =
            IF Len(tags.data[3]) >= 2
            THEN <<"genres", "tags", "collections", "libraries">>
            ELSE <<"genres", "tags", "libraries">>

C22_Witness ==
    /\ TagsBuilt /\ Len(tags.data[3]) = 1
    /\ Labels(tags.result) = <<"genres", "tags", "libraries">>

AllAnswered(outcomes) ==
    Len(outcomes) = 4 /\ \A i \in 1..4 : ~IsError(outcomes[i])

\* C23: when all four requests of getTags succeed and one body is not JSON,
\* getTags raises and does not return the placeholder; a section body of
\* getHomePageSections that is not JSON makes that operation fail.
C23_MalformedPropagates ==
    /\ (/\ op = "getTags" /\ tags.pc \in {"returned", "raised"}
        /\ AllAnswered(tags.outcomes)
        /\ \E i \in 1..4 : tags.outcomes[i] = "malformed")
       => tags.pc = "raised" /\ tags.result # PlaceholderTags
    /\ (/\ op = "home"
        /\ \E i \in 1..Len(home.outcomes) : home.outcomes[i] = "malformed")
       => home.pc = "raised"

C23_Witness ==
    /\ op = "getTags" /\ tags.pc = "raised"
    /\ tags.outcomes = <<"ok", "ok", "malformed", "ok">>

(***************************************************************************)
(* Tag identifiers: a reader takes an id apart at its first '-'.           *)
(***************************************************************************)
Dash == "-"
FirstDash(id) ==
    CHOOSE i \in 1..Len(id) : id[i] = Dash /\ \A j \in 1..(i - 1) : id[j] # Dash
DecodeTag(id) ==
    <<SubSeq(id, 1, FirstDash(id) - 1), SubSeq(id, FirstDash(id) + 1, Len(id))>>
Namespace(prefix) == SubSeq(prefix, 1, Len(prefix) - 1)
Namespaces ==
    {<<"g", "e", "n", "r", "e">>, <<"t", "a", "g">>,
     <<"c", "o", "l", "l", "e", "c", "t", "i", "o", "n">>,
     <<"l", "i", "b", "r", "a", "r", "y">>}
PrefixOf(sectionId) ==
    IF sectionId = "0" THEN GenrePrefix
    ELSE IF sectionId = "1" THEN TagPrefix
    ELSE IF sectionId = "2" THEN CollectionPrefix
    ELSE LibraryPrefix
DataOf(sectionId) ==
    IF sectionId = "0" THEN 1
    ELSE IF sectionId = "1" THEN 2
    ELSE IF sectionId = "2" THEN 3
    ELSE 4

\* the tags of a section are built from the elements the server sent for it
WellEncoded(section, elems) ==
    /\ Len(section.tags) = Len(elems)
    /\ \A k \in 1..Len(elems) :
          LET tag == section.tags[k]
              prefix == PrefixOf(section.id)
          IN  /\ Namespace(prefix) \in Namespaces
              /\ prefix[Len(prefix)] = Dash
              /\ tag.id = prefix \o elems[k].id
              /\ tag.label = capitalize(elems[k].name)
              /\ DecodeTag(tag.id) = <<Namespace(prefix), elems[k].id>>

\* C24: every tag id of getTags and getMangaDetails is namespace, '-', raw
\* id, with the raw id as the server sent it whatever the capitalized label
\* is, and taking the id apart at its first '-' gives back the namespace and
\* the raw id, also for a raw id that holds a '-'.
C24_TagIdsDecode ==
    /\ TagsBuilt =>
          \A s \in 1..Len(tags.result) :
              WellEncoded(tags.result[s], tags.data[DataOf(tags.result[s].id)])
    /\ (op = "details" /\ details.pc = "returned") =>
          \A s \in 1..2 : WellEncoded(details.result[s], details.data[s])

C24_Witness ==
    /\ TagsBuilt
    /\ Len(tags.result[1].tags) = 1
    /\ tags.result[1].tags[1].id = GenrePrefix \o <<"a", "-", "b">>
    /\ tags.result[1].tags[1].label = <<"A", "-", "b">>

(***************************************************************************)
(* The read state of the server after a submit.                            *)
(***************************************************************************)
SeriesIds == 1..Len(form.series)
SeriesAtOrBelow ==
    {b \in SeriesIds : form.series[b].metadata.numberSort <= form.progress}
AllApplied == \A k \in 1..Len(form.status) : form.status[k] = "ok"
Completed(plugin) ==
    /\ op = "form" /\ form.plugin = plugin /\ form.pc = "returned"
    /\ form.progress # NoProgress /\ AllApplied

\* C25 (as stated): after a submit of the source form that completed
\* without error for a target, the server holds as read exactly the books
\* whose sort key is at or below the target.
C25_EndStateExact ==
    Completed("source") => form.read = SeriesAtOrBelow

\* C25 (amended): the same for a submit that went past the "No changes" test,
\* found the books of the series and had every request applied by the
\* server, whatever the server held as read before.
C25_EndStateAfterMutation ==
    (Completed("source") /\ Len(form.log) > 0) => form.read = SeriesAtOrBelow

C25_Witness ==
    /\ Completed("source") /\ form.progress = 1
    /\ Len(form.series) = 2
    /\ form.series[1].metadata.numberSort = 1
    /\ form.series[2].metadata.numberSort = 2
    /\ form.booksReadCount = 2
    /\ form.log = <<ResetRequest, MarkRead(form.series[1])>>
    /\ form.read = {1}

Increasing(seq) == \A i, j \in 1..Len(seq) : i < j => seq[i] < seq[j]

\* C26: the source form issues the reset only after the books have arrived,
\* has its answer before it issues the first PATCH, and issues every PATCH
\* after the answer to the request before it, so the server applies the
\* requests in the order of their issue and the reset first.
C26_ResetThenOneByOne ==
    (op = "form" /\ form.plugin = "source") =>
        /\ Len(form.log) > 0 =>
              /\ form.pc \notin {"open", "loading", "fetching"}
              /\ form.log[1] = ResetRequest
              /\ form.books = form.series
        /\ \A k \in 1..(Len(form.log) - 1) : form.status[k] # "pending"
        /\ \A k \in 1..Len(form.log) :
              form.status[k] = "pending" <=>
                  k = Len(form.log) /\ form.pc \in {"resetting", "patching"}
        /\ form.pc = "resetting" <=> form.status = <<"pending">>
        /\ Increasing(form.applied)

C26_Witness ==
    /\ op = "form" /\ form.plugin = "source" /\ form.pc = "patching"
    /\ form.status = <<"ok", "ok", "pending">>
    /\ form.applied = <<1, 2>>

\* C27: whenever a submit takes the "No changes" path, the progress it
\* carries is absent or is the number of books the server holds as read.
C27_NoChangesIsCurrent ==
    (/\ op = "form" /\ form.pc = "returned"
     /\ NoChanges(form.progress, form.booksReadCount))
    => \/ form.progress = NoProgress
       \/ form.progress = Cardinality(form.read)

SourceRequests(books, progress) ==
    LET Marked(b) == SourceSelected(b, progress)
        marked == SelectSeq(books, Marked)
    IN  <<ResetRequest>> \o [i \in 1..Len(marked) |-> MarkRead(marked[i])]
Orders(n) ==
    {p \in [1..n -> 1..n] : \A i, j \in 1..n : i # j => p[i] # p[j]}
InOrder(n) == [i \in 1..n |-> i]
NumbersAreSortKeys ==
    \A b \in SeriesIds : form.series[b].number = form.series[b].metadata.numberSort

\* C28: for a series whose books all have their number equal to their sort
\* key, a completed submit of either form leaves the server in the read state
\* that the requests of the other form lead to for the same target, from
\* every read state and in every order the tracker's requests can be applied.
C28_FormsAgree ==
    \A plugin \in {"source", "tracker"} :
        (Completed(plugin) /\ Len(form.log) > 0 /\ NumbersAreSortKeys) =>
            LET src == SourceRequests(form.series, form.progress)
                trk == TrackerRequests(form.series, form.progress)
            IN  /\ form.log = IF plugin = "source" THEN src ELSE trk
                /\ \A before \in SUBSET SeriesIds :
                      /\ ServerApplyAll(before, src, InOrder(Len(src))) = form.read
                      /\ \A p \in Orders(Len(trk)) :
                            ServerApplyAll(before, trk, p) = form.read

C28_Witness ==
    /\ Completed("tracker") /\ NumbersAreSortKeys
    /\ Len(form.series) = 2 /\ form.progress = 1
    /\ form.series[1].number = 1 /\ form.series[2].number = 2
    /\ form.booksReadCount = 2
    /\ form.applied = <<2, 1>>
    /\ form.read = {1}

====
